---- MODULE Spec2Model ----
(***************************************************************************)
(* A model of scripts/santasearch.py: the three query builders             *)
(* (nuclei_bldq, nmap_bldq, httpx_bldq), the index enumerator              *)
(* (get_indexes), the session set-up (init_ESsession) and the dispatcher   *)
(* (init_sc).                                                              *)
(*                                                                         *)
(* Python values are modelled as follows.  A str that the code only        *)
(* passes around is a TLA+ string; a str the code inspects by character    *)
(* (an index name, for startswith) is a sequence of characters; a str      *)
(* built by '+' is the sequence of the pieces.  A dict is a record or a    *)
(* function on its keys.  A list the code mutates after it was built (the  *)
(* "must" array, by append) is an object on the heap, referred to by its   *)
(* identity; a list display evaluated by the code allocates a new object.  *)
(***************************************************************************)
EXTENDS Integers, Sequences, FiniteSets, TLC

VARIABLES
    pc,         \* position of the running call
    args,       \* the argparse namespace handed to init_sc
    conf,       \* the parsed configuration (yaml.safe_load)
    opts,       \* init_sc's dict, the value it returns
    session,    \* the requests.Session: its default headers
    net,        \* every HTTP request issued so far, in order
    resp,       \* the status of the last HTTP response received
    exit,       \* the exit status of the process: empty while it runs
    err,        \* the diagnostic printed before sys.exit
    heap,       \* the list objects allocated so far, by identity
    calls,      \* builder calls made so far: arguments and returned value
    idx_json,   \* the parsed body of the catalog response
    index_arr   \* the value get_indexes returned

vars == <<pc, args, conf, opts, session, net, resp, exit, err, heap, calls, idx_json, index_arr>>

---------------------------------------------------------------------------
(* Bounds of the model *)

MaxCalls == 2
MaxToolList == 2
MaxIdx == 2
MaxNameLen == 2

---------------------------------------------------------------------------
(* Python values *)

NoneVal == "<None>"

\* Python truth value of an optional str: None and '' are false
Truthy(v) == v # NoneVal /\ v # ""

Range(s) == {s[i] : i \in 1..Len(s)}

\* variant: the prefix is looked for anywhere in the name
startswith_anywhere(s, prefix) ==
    \E i \in 1..Len(s) : SubSeq(s, i, i + Len(prefix) - 1) = prefix

\* str.startswith on a sequence of characters
startswith(s, prefix) ==
    /\ Len(s) >= Len(prefix)
    /\ SubSeq(s, 1, Len(prefix)) = prefix

\* variant: one list object shared by every evaluation (a module-level template)
NewList_shared(h, init) == IF h = <<>> THEN Append(h, init) ELSE h

\* evaluating a list display: a new list object, identified by its position
NewList(h, init) == Append(h, init)

\* list.append on the object id
list_append(h, id, x) == [h EXCEPT ![id] = Append(@, x)]

\* the document d as json.dumps would print it on the heap h
Deref(h, d) == [d EXCEPT !._search.query.bool.must = h[@]]

---------------------------------------------------------------------------
(* Query builders *)

\* variant: the range keyed by nmap's timestamp field
nuclei_search_time(must, stime, etime, slimit) ==
    [query |-> [bool |-> [must |-> must,
                          filter |-> <<[range |-> ("time" :> [gte |-> stime, lte |-> etime])]>>]],
     _source |-> [includes |-> <<"@timestamp", "event.ip", "event.info.severity",
                                 "event.info.name", "event.matched-at", "event.template-id",
                                 "event.info.classification.cvss-score", "event.info.description">>],
     size |-> slimit]

\* nuclei_bldq's _dict['_search'] literal; must is the new list's identity
nuclei_search(must, stime, etime, slimit) ==
    [query |-> [bool |-> [must |-> must,
                          filter |-> <<[range |-> ("@timestamp" :> [gte |-> stime, lte |-> etime])]>>]],
     _source |-> [includes |-> <<"@timestamp", "event.ip", "event.info.severity",
                                 "event.info.name", "event.matched-at", "event.template-id",
                                 "event.info.classification.cvss-score", "event.info.description">>],
     size |-> slimit]

\* variant: the address matched on nmap's field name
nuclei_bldq_ip(h, es_host, ip_addr, stime, etime, slimit) ==
    LET h1 == NewList(h, <<>>)
        must == Len(h1)
        _dict == [_uri |-> es_host \o <<"/nuclei/_search?filter_path=hits.hits._source">>,
                  _search |-> nuclei_search(must, stime, etime, slimit)]
        match_ip == [match |-> ("ip" :> ip_addr)]
    IN  [heap |-> IF Truthy(ip_addr) THEN list_append(h1, must, match_ip) ELSE h1,
         ret |-> _dict]

nuclei_bldq(h, es_host, ip_addr, stime, etime, slimit) ==
    LET h1 == NewList(h, <<>>)
        must == Len(h1)
        _dict == [_uri |-> es_host \o <<"/nuclei/_search?filter_path=hits.hits._source">>,
                  _search |-> nuclei_search(must, stime, etime, slimit)]
        match_ip == [match |-> ("event.ip" :> ip_addr)]
    IN  [heap |-> IF Truthy(ip_addr) THEN list_append(h1, must, match_ip) ELSE h1,
         ret |-> _dict]

\* variant: a limit of 0 replaced by the default (slimit or 100)
nmap_search_default(must, stime, etime, slimit) ==
    [query |-> [bool |-> [must |-> must,
                          filter |-> <<[range |-> ("time" :> [gte |-> stime, lte |-> etime])]>>]],
     _source |-> [includes |-> <<"time", "ip", "port", "protocol", "script", "script_output">>],
     size |-> IF slimit = 0 THEN 100 ELSE slimit]

\* nmap_bldq's _dict['_search'] literal
nmap_search(must, stime, etime, slimit) ==
    [query |-> [bool |-> [must |-> must,
                          filter |-> <<[range |-> ("time" :> [gte |-> stime, lte |-> etime])]>>]],
     _source |-> [includes |-> <<"time", "ip", "port", "protocol", "script", "script_output">>],
     size |-> slimit]

nmap_bldq(h, es_host, ip_addr, stime, etime, slimit) ==
    LET h1 == NewList(h, <<>>)
        must == Len(h1)
        _dict == [_uri |-> es_host \o <<"/nmap/_search?filter_path=hits.hits._source">>,
                  _search |-> nmap_search(must, stime, etime, slimit)]
        match_ip == [match |-> ("ip" :> ip_addr)]
    IN  [heap |-> IF Truthy(ip_addr) THEN list_append(h1, must, match_ip) ELSE h1,
         ret |-> _dict]

\* httpx_bldq's _dict['_search'] literal
httpx_search(must, stime, etime, slimit) ==
    [query |-> [bool |-> [must |-> must,
                          filter |-> <<[exists |-> [field |-> "script_output"]],
                                       [range |-> ("time" :> [gte |-> stime, lte |-> etime])]>>]],
     _source |-> [includes |-> <<"time", "script", "script_output">>],
     size |-> slimit]

\* variant: the address match inserted at the front of must
httpx_bldq_front(h, es_host, ip_addr, stime, etime, slimit) ==
    LET h1 == NewList(h, <<[match |-> [script |-> "httpx"]]>>)
        must == Len(h1)
        _dict == [_uri |-> es_host \o <<"/nmap/_search?filter_path=hits.hits._source">>,
                  _search |-> httpx_search(must, stime, etime, slimit)]
        match_ip == [match |-> ("ip" :> ip_addr)]
    IN  [heap |-> IF Truthy(ip_addr)
                  THEN [h1 EXCEPT ![must] = <<match_ip>> \o @]
                  ELSE h1,
         ret |-> _dict]

httpx_bldq(h, es_host, ip_addr, stime, etime, slimit) ==
    LET h1 == NewList(h, <<[match |-> [script |-> "httpx"]]>>)
        must == Len(h1)
        _dict == [_uri |-> es_host \o <<"/nmap/_search?filter_path=hits.hits._source">>,
                  _search |-> httpx_search(must, stime, etime, slimit)]
        match_ip == [match |-> ("ip" :> ip_addr)]
    IN  [heap |-> IF Truthy(ip_addr) THEN list_append(h1, must, match_ip) ELSE h1,
         ret |-> _dict]

\* the builders by tool name, as init_sc's if/elif chain selects them
Builders == {"nmap", "httpx", "nuclei"}

bldq(tool, h, es_host, ip_addr, stime, etime, slimit) ==
    CASE tool = "nmap"   -> nmap_bldq(h, es_host, ip_addr, stime, etime, slimit)
      [] tool = "httpx"  -> httpx_bldq(h, es_host, ip_addr, stime, etime, slimit)
      [] tool = "nuclei" -> nuclei_bldq(h, es_host, ip_addr, stime, etime, slimit)

---------------------------------------------------------------------------
(* Inputs *)

\* -a/--addr: absent (None), empty, or an address
Addrs == {NoneVal, "", "10.0.0.5"}

\* -s/--start and -e/--end: the defaults and an absolute window
TimeWindows == {<<"now-24h", "now">>, <<"2022-04-01", "2022-04-17">>}

\* -l/--limit (type=int): a negative value, the boundary 0 and the default
Limits == {-1, 0, 100}

\* elasticsearch.ssl, .ip, .port give the base URL
es_host_of(c) ==
    (IF c.elasticsearch.ssl THEN <<"https://", c.elasticsearch.ip>>
                            ELSE <<"http://", c.elasticsearch.ip>>)
        \o <<":", ToString(c.elasticsearch.port)>>

\* sys.exit(code): the status the process ends with, as the parent sees it
ExitStatus(code) == code % 256

\* no sys.exit so far
Running == {}
NoSession == "<no session>"

\* -t/--tool: the sentinel, the tools with a builder, and a tool without one
ToolNames == {"nmap", "httpx", "nuclei", "masscan"}
Selectors == {"all"} \cup ToolNames

\* tool_list of the configuration: a YAML list of tool names
ToolLists == UNION {[1..n -> ToolNames] : n \in 0..MaxToolList}

\* elasticsearch.username / .password: a YAML null, an empty or a non-empty str
\* (the configuration is taken as loaded and well typed: the password is a str)
Usernames == {NoneVal, "", "elastic"}
Passwords == {"changeme"}

\* HTTP statuses the backend may answer with
Statuses == {200, 401, 503}

NoArgs == [tool |-> "all", addr |-> NoneVal, start |-> "now-24h", end |-> "now",
           limit |-> 100, output |-> "txt", verbose |-> FALSE]

Confs ==
    [elasticsearch : [ssl : BOOLEAN, ip : {"127.0.0.1"}, port : {9200},
                      username : Usernames, password : Passwords],
     tool_list : ToolLists]

EmptyDict == [k \in {} |-> NoneVal]

---------------------------------------------------------------------------
(* Builder calls on their own: any sequence of calls, as a caller may make *)

InitBld ==
    /\ pc = "bld"
    /\ args = NoArgs
    /\ conf \in {c \in Confs : /\ c.tool_list = <<>>
                               /\ c.elasticsearch.username = NoneVal}
    /\ opts = EmptyDict
    /\ session = NoSession
    /\ net = <<>>
    /\ resp = 0
    /\ exit = Running
    /\ err = ""
    /\ heap = <<>>
    /\ calls = <<>>
    /\ idx_json = <<>>
    /\ index_arr = <<>>

\* one call of the builder of `tool`; the caller keeps the returned document
Call(tool, ip_addr, stime, etime, slimit) ==
    LET r == bldq(tool, heap, es_host_of(conf), ip_addr, stime, etime, slimit)
    IN  /\ pc = "bld"
        /\ Len(calls) < MaxCalls
        /\ heap' = r.heap
        /\ calls' = Append(calls, [tool |-> tool, es_host |-> es_host_of(conf),
                                   ip_addr |-> ip_addr, stime |-> stime,
                                   etime |-> etime, slimit |-> slimit,
                                   doc |-> r.ret,
                                   ret |-> Deref(r.heap, r.ret)])
        /\ UNCHANGED <<pc, args, conf, opts, session, net, resp, exit, err, idx_json, index_arr>>

NextBld ==
    \E t \in Builders, a \in Addrs, w \in TimeWindows, l \in Limits :
        Call(t, a, w[1], w[2], l)

SpecBld == InitBld /\ [][NextBld]_vars

---------------------------------------------------------------------------
(* Properties of the builders, over every call made (SpecBld) *)

Must(c) == c.ret._search.query.bool.must
Filter(c) == c.ret._search.query.bool.filter

\* the field names each tool's schema uses
TimestampField(tool) == IF tool = "nuclei" THEN "@timestamp" ELSE "time"
AddressField(tool) == IF tool = "nuclei" THEN "event.ip" ELSE "ip"

RangeClauses(c) == {i \in 1..Len(Filter(c)) : "range" \in DOMAIN Filter(c)[i]}
MatchesOn(c, field) ==
    {i \in 1..Len(Must(c)) : /\ "match" \in DOMAIN Must(c)[i]
                             /\ field \in DOMAIN Must(c)[i].match}

ScriptClause == [match |-> [script |-> "httpx"]]
ExistsClause == [exists |-> [field |-> "script_output"]]

\* C3: for each builder and every start, end, address and limit, the filter
\* array of the returned body holds exactly one range clause, keyed by the
\* tool's own timestamp field ('time' for nmap and httpx, '@timestamp' for
\* nuclei), whose gte and lte are the supplied start and end unchanged.
C3_OneRangeOnOwnTimestamp ==
    \A k \in 1..Len(calls) :
        LET c == calls[k] IN
        /\ Cardinality(RangeClauses(c)) = 1
        /\ \A i \in RangeClauses(c) :
              /\ DOMAIN Filter(c)[i] = {"range"}
              /\ DOMAIN Filter(c)[i].range = {TimestampField(c.tool)}
              /\ Filter(c)[i].range[TimestampField(c.tool)] =
                     [gte |-> c.stime, lte |-> c.etime]

C3_Witness ==
    /\ Len(calls) = 2
    /\ calls[1].tool = "nuclei" /\ calls[1].stime = "2022-04-01"
    /\ calls[2].tool = "httpx" /\ calls[2].etime = "now"
    /\ Filter(calls[1]) =
           <<[range |-> ("@timestamp" :> [gte |-> "2022-04-01", lte |-> "2022-04-17"])]>>

\* C4: for each builder, a non-empty address gives exactly one match clause
\* on the tool's own address field ('ip' for nmap and httpx, 'event.ip' for
\* nuclei) carrying that address; an absent or empty address gives none: the
\* must array is then empty for nmap and nuclei and holds only the fixed
\* discriminator clause for httpx.
C4_AddressMatchIffAddress ==
    \A k \in 1..Len(calls) :
        LET c == calls[k]
            hits == MatchesOn(c, AddressField(c.tool))
        IN  IF Truthy(c.ip_addr)
            THEN /\ Cardinality(hits) = 1
                 /\ \A i \in hits :
                        Must(c)[i] = [match |-> (AddressField(c.tool) :> c.ip_addr)]
            ELSE /\ hits = {}
                 /\ c.tool \in {"nmap", "nuclei"} => Must(c) = <<>>
                 /\ c.tool = "httpx" => Must(c) = <<ScriptClause>>

C4_Witness ==
    /\ Len(calls) = 2
    /\ calls[1].tool = "nuclei" /\ calls[1].ip_addr = "10.0.0.5"
    /\ Must(calls[1]) = <<[match |-> ("event.ip" :> "10.0.0.5")]>>
    /\ calls[2].tool = "httpx" /\ calls[2].ip_addr = ""
    /\ Must(calls[2]) = <<ScriptClause>>

\* C5: for every input of httpx_bldq the must array starts with the clause
\* match script = 'httpx' and an address match comes after it (with address
\* 10.0.0.5 the array is exactly [match script 'httpx', match ip '10.0.0.5']),
\* and the filter array holds both the exists clause on 'script_output' and
\* the time-range clause, with or without an address.
C5_HttpxFixedClauses ==
    \A k \in 1..Len(calls) :
        LET c == calls[k] IN
        c.tool = "httpx" =>
            /\ Len(Must(c)) >= 1
            /\ Must(c)[1] = ScriptClause
            /\ \A i \in MatchesOn(c, "ip") : i > 1
            /\ c.ip_addr = "10.0.0.5" =>
                   Must(c) = <<ScriptClause, [match |-> [ip |-> "10.0.0.5"]]>>
            /\ \E i \in 1..Len(Filter(c)) : Filter(c)[i] = ExistsClause
            /\ \E i \in 1..Len(Filter(c)) :
                   Filter(c)[i] = [range |-> [time |-> [gte |-> c.stime, lte |-> c.etime]]]

C5_Witness ==
    /\ Len(calls) = 2
    /\ calls[1].tool = "httpx" /\ calls[1].ip_addr = "10.0.0.5"
    /\ Must(calls[1]) = <<ScriptClause, [match |-> [ip |-> "10.0.0.5"]]>>
    /\ calls[2].tool = "httpx" /\ calls[2].ip_addr = NoneVal
    /\ Len(Filter(calls[2])) = 2

SameArguments(c, d) ==
    /\ c.tool = d.tool /\ c.es_host = d.es_host /\ c.ip_addr = d.ip_addr
    /\ c.stime = d.stime /\ c.etime = d.etime /\ c.slimit = d.slimit

\* C8: a builder's result depends only on the arguments of the call: after any
\* earlier calls, two calls with identical arguments return identical
\* documents, and the address clause appended to one returned document never
\* shows in the document a later call without an address returns.
C8_ResultDependsOnArgumentsOnly ==
    /\ \A i, j \in 1..Len(calls) :
           SameArguments(calls[i], calls[j]) => calls[i].ret = calls[j].ret
    /\ \A i, j \in 1..Len(calls) :
           (i < j /\ Truthy(calls[i].ip_addr) /\ ~Truthy(calls[j].ip_addr)) =>
               \A f \in {"ip", "event.ip"} : MatchesOn(calls[j], f) = {}

C8_Witness ==
    /\ Len(calls) = 2
    /\ calls[1].tool = calls[2].tool
    /\ calls[1].ip_addr = "10.0.0.5"
    /\ calls[2].ip_addr = NoneVal
    /\ MatchesOn(calls[1], "ip") = {1}
    /\ Must(calls[2]) = <<>>

\* C9: for each builder and every integer limit, 0 included, the size of the
\* returned body is the supplied limit unchanged: a limit of 0 gives size 0.
C9_SizeIsLimit ==
    \A k \in 1..Len(calls) : calls[k].ret._search.size = calls[k].slimit

C9_Witness ==
    /\ Len(calls) = 2
    /\ calls[1].tool = "nmap" /\ calls[1].slimit = 0 /\ calls[1].ret._search.size = 0
    /\ calls[2].tool = "nuclei" /\ calls[2].slimit = 100

---------------------------------------------------------------------------
(* The dispatcher: init_sc, with init_ESsession inside it *)

\* base64.b64encode(...).decode(): kept as an encoding of its argument, never
\* the argument itself
b64encode(userpass) == [b64 |-> userpass]

\* variant: the credentials are never added
session_headers_noauth(user, passwd) ==
    ("Content-Type" :> "application/json")

\* init_ESsession up to the probe: the session's default headers
session_headers(user, passwd) ==
    LET ctype_header == ("Content-Type" :> "application/json")
        userpass == <<user, ":", passwd>>
        auth_header == ("Authorization" :> <<"Basic ", b64encode(userpass)>>)
    IN  IF Truthy(user) THEN auth_header @@ ctype_header ELSE ctype_header

Init ==
    /\ pc = "start"
    /\ args \in [tool : Selectors, addr : Addrs, start : {"now-24h", "2022-04-01"},
                 end : {"now"}, limit : Limits, output : {"txt"}, verbose : {FALSE}]
    /\ conf \in Confs
    /\ opts = EmptyDict
    /\ session = NoSession
    /\ net = <<>>
    /\ resp = 0
    /\ exit = Running
    /\ err = ""
    /\ heap = <<>>
    /\ calls = <<>>
    /\ idx_json = <<>>
    /\ index_arr = <<>>

\* init_sc from its entry to the moment init_ESsession's probe is on the wire
init_sc_connect ==
    LET es_host == es_host_of(conf)
        es_user == conf.elasticsearch.username
        es_pass == conf.elasticsearch.password
        headers == session_headers(es_user, es_pass)
    IN  /\ pc = "start"
        /\ opts' = ("verbose" :> args.verbose) @@ ("es_host" :> es_host)
                       @@ ("es_user" :> es_user) @@ ("es_pass" :> es_pass)
        /\ session' = headers
        /\ net' = Append(net, [method |-> "GET", url |-> es_host, headers |-> headers])
        /\ pc' = "probe"
        /\ UNCHANGED <<args, conf, resp, exit, err, heap, calls, idx_json, index_arr>>

\* variant: only a 5xx status is fatal
init_ESsession_lenient ==
    \E status \in Statuses :
        /\ pc = "probe"
        /\ resp' = status
        /\ IF status >= 500
           THEN /\ err' = "Connection failed"
                /\ exit' = {ExitStatus(-1)}
                /\ pc' = "exited"
                /\ opts' = opts
           ELSE /\ opts' = ("es_session" :> session) @@ opts
                /\ pc' = "session"
                /\ UNCHANGED <<err, exit>>
        /\ UNCHANGED <<args, conf, session, net, heap, calls, idx_json, index_arr>>

\* the probe's response arrives: the rest of init_ESsession
init_ESsession_response ==
    \E status \in Statuses :
        /\ pc = "probe"
        /\ resp' = status
        /\ IF status # 200
           THEN /\ err' = "Connection failed"
                /\ exit' = {ExitStatus(-1)}
                /\ pc' = "exited"
                /\ opts' = opts
           ELSE /\ opts' = ("es_session" :> session) @@ opts
                /\ pc' = "session"
                /\ UNCHANGED <<err, exit>>
        /\ UNCHANGED <<args, conf, session, net, heap, calls, idx_json, index_arr>>

\* variant: only the requested tool's document is built
RECURSIVE tool_loop_selected(_, _, _, _, _)
tool_loop_selected(o, h, tool_list, i, a) ==
    IF i > Len(tool_list) THEN [opts |-> o, heap |-> h]
    ELSE LET tool == tool_list[i]
             r == bldq(tool, h, o["es_host"], a.addr, a.start, a.end, a.limit)
         IN  IF tool \in Builders /\ a.tool \in {"all", tool}
             THEN tool_loop_selected((tool :> r.ret) @@ o, r.heap, tool_list, i + 1, a)
             ELSE tool_loop_selected(o, h, tool_list, i + 1, a)

\* "for tool in opts['tool_list']" with its if/elif chain, from position i on
RECURSIVE tool_loop(_, _, _, _, _)
tool_loop(o, h, tool_list, i, a) ==
    IF i > Len(tool_list) THEN [opts |-> o, heap |-> h]
    ELSE LET tool == tool_list[i] IN
         IF tool = "nmap" THEN
             LET r == nmap_bldq(h, o["es_host"], a.addr, a.start, a.end, a.limit)
             IN  tool_loop(("nmap" :> r.ret) @@ o, r.heap, tool_list, i + 1, a)
         ELSE IF tool = "httpx" THEN
             LET r == httpx_bldq(h, o["es_host"], a.addr, a.start, a.end, a.limit)
             IN  tool_loop(("httpx" :> r.ret) @@ o, r.heap, tool_list, i + 1, a)
         ELSE IF tool = "nuclei" THEN
             LET r == nuclei_bldq(h, o["es_host"], a.addr, a.start, a.end, a.limit)
             IN  tool_loop(("nuclei" :> r.ret) @@ o, r.heap, tool_list, i + 1, a)
         ELSE tool_loop(o, h, tool_list, i + 1, a)

\* init_sc after the session is established: the requested tool is not known
init_sc_unknown_tool ==
    /\ pc = "session"
    /\ args.tool # "all"
    /\ args.tool \notin Range(conf.tool_list)
    /\ err' = "Unknown tool"
    /\ exit' = {ExitStatus(-1)}
    /\ pc' = "exited"
    /\ UNCHANGED <<args, conf, opts, session, net, resp, heap, calls, idx_json, index_arr>>

\* init_sc after the session is established: the plan is built and returned
init_sc_build ==
    /\ pc = "session"
    /\ ~(args.tool # "all" /\ args.tool \notin Range(conf.tool_list))
    /\ LET o1 == ("tool" :> args.tool) @@ ("tool_list" :> conf.tool_list) @@ opts
           r == tool_loop(o1, heap, conf.tool_list, 1, args)
       IN  /\ opts' = ("oformat" :> args.output) @@ r.opts
           /\ heap' = r.heap
    /\ pc' = "returned"
    /\ UNCHANGED <<args, conf, session, net, resp, exit, err, calls, idx_json, index_arr>>

Next ==
    \/ init_sc_connect
    \/ init_ESsession_response
    \/ init_sc_unknown_tool
    \/ init_sc_build

Spec == Init /\ [][Next]_vars

---------------------------------------------------------------------------
(* The index enumerator: get_indexes *)

Chars == {".", "n"}

\* index names, as sequences of characters
IndexNames == UNION {[1..n -> Chars] : n \in 1..MaxNameLen}

\* bodies of the catalog response: a JSON array of {"index": name}
Catalogs == UNION {[1..n -> [index : IndexNames]] : n \in 0..MaxIdx}

InitIdx ==
    /\ pc = "idx"
    /\ args = NoArgs
    /\ conf \in {c \in Confs : c.tool_list = <<>>}
    /\ opts = EmptyDict
    /\ session = session_headers(conf.elasticsearch.username, conf.elasticsearch.password)
    /\ net = <<>>
    /\ resp = 0
    /\ exit = Running
    /\ err = ""
    /\ heap = <<>>
    /\ calls = <<>>
    /\ idx_json = <<>>
    /\ index_arr = <<>>

\* "for idx in idx_json: if not idx['index'].startswith('.'): append"
RECURSIVE index_loop(_, _, _)
index_loop(arr, json, i) ==
    IF i > Len(json) THEN arr
    ELSE IF ~startswith(json[i].index, <<".">>)
         THEN index_loop(Append(arr, json[i].index), json, i + 1)
         ELSE index_loop(arr, json, i + 1)

\* get_indexes up to the request being on the wire
get_indexes_request ==
    LET index_URI == es_host_of(conf) \o <<"/_cat/indices?h=index&format=json">>
    IN  /\ pc = "idx"
        /\ net' = Append(net, [method |-> "GET", url |-> index_URI, headers |-> session])
        /\ pc' = "idx_wait"
        /\ UNCHANGED <<args, conf, opts, session, resp, exit, err, heap, calls,
                       idx_json, index_arr>>

\* the catalog answers with a status other than 200
get_indexes_failed ==
    \E status \in Statuses \ {200} :
        /\ pc = "idx_wait"
        /\ resp' = status
        /\ err' = "Connection failed"
        /\ exit' = {ExitStatus(-1)}
        /\ pc' = "exited"
        /\ UNCHANGED <<args, conf, opts, session, net, heap, calls, idx_json, index_arr>>

\* the catalog answers 200 with a body
get_indexes_response ==
    \E body \in Catalogs :
        /\ pc = "idx_wait"
        /\ resp' = 200
        /\ idx_json' = body
        /\ index_arr' = index_loop(<<>>, body, 1)
        /\ pc' = "idx_returned"
        /\ UNCHANGED <<args, conf, opts, session, net, exit, err, heap, calls>>

NextIdx ==
    \/ get_indexes_request
    \/ get_indexes_failed
    \/ get_indexes_response

SpecIdx == InitIdx /\ [][NextIdx]_vars

\* the positions of the response whose name does not begin with '.'
Kept == {i \in 1..Len(idx_json) : idx_json[i].index[1] # "."}

\* C7: for every catalog response with status 200, get_indexes returns exactly
\* the names of the response that do not start with '.', in the order the
\* backend listed them: no returned name starts with '.', none other is dropped.
C7_ExactlyTheNonInternalNames ==
    pc = "idx_returned" =>
        /\ resp = 200
        /\ \A k \in 1..Len(index_arr) : index_arr[k][1] # "."
        /\ Len(index_arr) = Cardinality(Kept)
        /\ \A i \in Kept :
               index_arr[Cardinality({j \in Kept : j <= i})] = idx_json[i].index

C7_Witness ==
    /\ pc = "idx_returned"
    /\ idx_json = <<[index |-> <<".", "n">>], [index |-> <<"n", ".">>]>>
    /\ index_arr = <<<<"n", ".">>>>

---------------------------------------------------------------------------
(* Properties of the dispatcher (Spec) *)

UnknownToolRequested == args.tool # "all" /\ args.tool \notin Range(conf.tool_list)

Ended == pc \in {"exited", "returned"}

\* the plan: the entries of the returned dict stored under a tool's name
PlanTools == DOMAIN opts \cap ToolNames

\* C1: when the requested tool is not 'all' and not in tool_list, the run
\* ends in a fatal configuration error with a non-zero exit status, and no
\* network request (no liveness probe either) is issued at any point of it.
C1_UnknownToolNoNetwork ==
    UnknownToolRequested =>
        /\ net = <<>>
        /\ Ended => (pc = "exited" /\ err = "Unknown tool" /\ (exit # Running /\ 0 \notin exit))

\* C2: a liveness probe answered with a status other than 200 ends the run in
\* a fatal connectivity error with a non-zero exit status; the probe is not
\* sent again, and after the response there is no tool validation, no index
\* listing, no builder call, no further request, and no plan.
C2_ProbeFailureIsFatal ==
    resp \notin {0, 200} =>
        /\ pc = "exited"
        /\ err = "Connection failed"
        /\ (exit # Running /\ 0 \notin exit)
        /\ Len(net) = 1
        /\ net[1].url = es_host_of(conf)
        /\ heap = <<>>
        /\ PlanTools = {}
        /\ DOMAIN opts \cap {"tool", "tool_list", "oformat", "es_session"} = {}
        /\ index_arr = <<>>
        /\ ~ENABLED Next

C2_Witness ==
    /\ resp = 503
    /\ pc = "exited"
    /\ conf.tool_list = <<"nmap", "httpx">>
    /\ args.tool = "nmap"

\* the document the builder of `tool` returns for the run's arguments
Expected(tool) ==
    LET r == bldq(tool, <<>>, es_host_of(conf), args.addr, args.start, args.end, args.limit)
    IN  Deref(r.heap, r.ret)

\* C6 as stated: whenever init_sc returns normally, the plan has exactly one
\* document for every tool name of tool_list and for no other tool, whatever
\* selector was requested.
C6_OneEntryPerListedTool ==
    pc = "returned" => PlanTools = Range(conf.tool_list)

\* C6 as amended: whenever init_sc returns normally, the plan has exactly one
\* document, the one that tool's builder returns, under the name of every tool
\* of tool_list that has a builder (nmap, httpx, nuclei) and under no other
\* tool name (a listed tool without a builder gets no entry), whatever
\* selector was requested.
C6_OneEntryPerListedBuilder ==
    pc = "returned" =>
        /\ PlanTools = Range(conf.tool_list) \cap Builders
        /\ \A t \in PlanTools : Deref(heap, opts[t]) = Expected(t)

C6_Witness ==
    /\ pc = "returned"
    /\ args.tool = "nmap"
    /\ conf.tool_list = <<"nmap", "httpx">>
    /\ PlanTools = {"nmap", "httpx"}

====
